---- MODULE Spec2Model ----
(***************************************************************************)
(* Model of tidy-rpm-cache.py: discovery of RPM files (find_rpms), the     *)
(* path sort of tidy_rpm_cache, the linear grouping scan of                *)
(* find_obsolete_rpms, the split of each group in process_rpm_group and    *)
(* the confirmation / deletion step of delete_obsolete_rpms.               *)
(*                                                                         *)
(* Spec is the run with the default --srpm, --exclude and                  *)
(* --ignore-file-errors; SpecOptions lets these vary; SpecGroup calls      *)
(* process_rpm_group twice on one list; SpecCmp applies the comparators    *)
(* to paths and records on their own.                                      *)
(*                                                                         *)
(* Strings that the program only compares for equality or concatenates    *)
(* (header name, header arch) are TLA+ strings.  File names, which the    *)
(* program orders and splits on '.', are sequences of one-character        *)
(* strings ordered by their ASCII rank.                                    *)
(***************************************************************************)
EXTENDS Integers, Sequences, FiniteSets, TLC

(***************************************************************************)
(* Bounds of the model.                                                    *)
(***************************************************************************)
\* Largest number of files present in the searched directories.
MaxFiles == 3
\* Largest number of --dir options on the command line.
MaxDirs == 2
\* Largest value of --num-obsolete.
MaxObsolete == 1
\* Largest number of answers typed at the confirmation prompt.
MaxPrompts == 2

(***************************************************************************)
(* Characters and strings.                                                 *)
(***************************************************************************)
\* The characters used in file names, in ASCII order ('-' < '.' < digits
\* < lower-case letters).
Alphabet == << "-", ".", "0", "1", "2", "3", "5", "9", "a", "b", "c",
               "m", "p", "r", "s", "x", "y" >>

Ord(c) == CHOOSE k \in 1..Len(Alphabet) : Alphabet[k] = c

\* Three-way comparison of two integers: (a > b) - (a < b).
cmp(a, b) == IF a > b THEN 1 ELSE IF a < b THEN -1 ELSE 0

\* Python's comparison of two str values (sequences of characters):
\* lexicographic by code point, a proper prefix is smaller.
RECURSIVE StrCmp(_, _)
StrCmp(a, b) ==
    IF a = <<>> /\ b = <<>> THEN 0
    ELSE IF a = <<>> THEN -1
    ELSE IF b = <<>> THEN 1
    ELSE IF Ord(Head(a)) # Ord(Head(b)) THEN cmp(Ord(Head(a)), Ord(Head(b)))
    ELSE StrCmp(Tail(a), Tail(b))

\* Python's comparison of two lists of str: lexicographic by element.
RECURSIVE ListCmp(_, _)
ListCmp(a, b) ==
    IF a = <<>> /\ b = <<>> THEN 0
    ELSE IF a = <<>> THEN -1
    ELSE IF b = <<>> THEN 1
    ELSE IF StrCmp(Head(a), Head(b)) # 0 THEN StrCmp(Head(a), Head(b))
    ELSE ListCmp(Tail(a), Tail(b))

\* str.split( '.' ): the parts between the dots (always at least one part).
RECURSIVE SplitAcc(_, _, _)
SplitAcc(s, cur, acc) ==
    IF s = <<>> THEN Append(acc, cur)
    ELSE IF Head(s) = "." THEN SplitAcc(Tail(s), <<>>, Append(acc, cur))
    ELSE SplitAcc(Tail(s), Append(cur, Head(s)), acc)

Split(s) == SplitAcc(s, <<>>, <<>>)

\* str.endswith( suffix ).
EndsWith(s, suffix) ==
    /\ Len(s) >= Len(suffix)
    /\ SubSeq(s, Len(s) - Len(suffix) + 1, Len(s)) = suffix

\* reg_ex.search( s ) for a literal expression: pat occurs somewhere in s.
Search(pat, s) ==
    \E k \in 1..(Len(s) - Len(pat) + 1) : SubSeq(s, k, k + Len(pat) - 1) = pat

(***************************************************************************)
(* The file system: the files that may be present under the searched       *)
(* directories.  A file is known by its index in Universe; its path is     *)
(* os.path.join( dir, name ).  hname, harch and evr (epoch, version,       *)
(* release) are what the RPM header of the file carries; size is what      *)
(* os.path.getsize returns.                                                *)
(***************************************************************************)
Dirs == {"d1", "d2"}

Universe == <<
  [dir |-> "d1", name |-> <<"a","-","1",".","0",".","x",".","r","p","m">>,
   isfile |-> TRUE, islink |-> FALSE, readable |-> TRUE, sizeok |-> TRUE,
   hname |-> "a", harch |-> "x", evr |-> <<1, 1, 0>>, size |-> 1],
  [dir |-> "d1", name |-> <<"a","-","2",".","0",".","x",".","r","p","m">>,
   isfile |-> TRUE, islink |-> FALSE, readable |-> TRUE, sizeok |-> TRUE,
   hname |-> "a", harch |-> "x", evr |-> <<0, 2, 0>>, size |-> 2],
  [dir |-> "d2", name |-> <<"a","-","2",".","0",".","x",".","r","p","m">>,
   isfile |-> TRUE, islink |-> FALSE, readable |-> TRUE, sizeok |-> TRUE,
   hname |-> "a", harch |-> "x", evr |-> <<0, 2, 0>>, size |-> 2],
  [dir |-> "d1", name |-> <<"a","-","2","-","1",".","0",".","x",".","r","p","m">>,
   isfile |-> TRUE, islink |-> FALSE, readable |-> TRUE, sizeok |-> TRUE,
   hname |-> "a-2", harch |-> "x", evr |-> <<0, 1, 0>>, size |-> 1],
  [dir |-> "d1", name |-> <<"a","-","3",".","0",".","x",".","r","p","m">>,
   isfile |-> TRUE, islink |-> FALSE, readable |-> TRUE, sizeok |-> TRUE,
   hname |-> "a", harch |-> "x", evr |-> <<0, 3, 0>>, size |-> 3],
  [dir |-> "d1", name |-> <<"a","-","1",".","0",".","x","y",".","r","p","m">>,
   isfile |-> TRUE, islink |-> FALSE, readable |-> TRUE, sizeok |-> TRUE,
   hname |-> "a", harch |-> "xy", evr |-> <<0, 1, 0>>, size |-> 1],
  [dir |-> "d1", name |-> <<"a","x","-","1",".","0",".","y",".","r","p","m">>,
   isfile |-> TRUE, islink |-> FALSE, readable |-> TRUE, sizeok |-> TRUE,
   hname |-> "ax", harch |-> "y", evr |-> <<0, 1, 0>>, size |-> 1],
  [dir |-> "d1", name |-> <<"a","-","2",".","5",".","x",".","r","p","m">>,
   isfile |-> TRUE, islink |-> FALSE, readable |-> FALSE, sizeok |-> TRUE,
   hname |-> "a", harch |-> "x", evr |-> <<0, 2, 5>>, size |-> 2],
  [dir |-> "d1", name |-> <<"a","-","0",".","9",".","x",".","r","p","m">>,
   isfile |-> TRUE, islink |-> FALSE, readable |-> TRUE, sizeok |-> FALSE,
   hname |-> "a", harch |-> "x", evr |-> <<0, 0, 9>>, size |-> 2],
  [dir |-> "d1", name |-> <<"a","-","1",".","0",".","s","r","c",".","r","p","m">>,
   isfile |-> TRUE, islink |-> FALSE, readable |-> TRUE, sizeok |-> TRUE,
   hname |-> "a", harch |-> "x", evr |-> <<0, 1, 0>>, size |-> 1],
  [dir |-> "d1", name |-> <<"a","-","2",".","0",".","s","r","c",".","r","p","m">>,
   isfile |-> TRUE, islink |-> FALSE, readable |-> TRUE, sizeok |-> TRUE,
   hname |-> "a", harch |-> "x", evr |-> <<0, 2, 0>>, size |-> 2],
  [dir |-> "d1", name |-> <<"a","-","0",".","5",".","x",".","r","p","m">>,
   isfile |-> TRUE, islink |-> TRUE, readable |-> TRUE, sizeok |-> TRUE,
   hname |-> "a", harch |-> "x", evr |-> <<0, 0, 5>>, size |-> 1],
  [dir |-> "d1", name |-> <<"a","-","0",".","3",".","x",".","r","p","m">>,
   isfile |-> FALSE, islink |-> FALSE, readable |-> TRUE, sizeok |-> TRUE,
   hname |-> "a", harch |-> "x", evr |-> <<0, 0, 3>>, size |-> 1],
  [dir |-> "d1", name |-> <<"a","-","0",".","1",".","x",".","s","r","p","m">>,
   isfile |-> TRUE, islink |-> FALSE, readable |-> TRUE, sizeok |-> TRUE,
   hname |-> "a", harch |-> "x", evr |-> <<0, 0, 1>>, size |-> 1],
  [dir |-> "d1", name |-> <<"b","-","1",".","r","p","m">>,
   isfile |-> TRUE, islink |-> FALSE, readable |-> TRUE, sizeok |-> TRUE,
   hname |-> "b", harch |-> "x", evr |-> <<0, 1, 0>>, size |-> 1],
  [dir |-> "d1", name |-> <<"a","-","1",".","x",".","r","p","m">>,
   isfile |-> TRUE, islink |-> FALSE, readable |-> TRUE, sizeok |-> TRUE,
   hname |-> "a", harch |-> "x", evr |-> <<0, 1, 0>>, size |-> 1],
  [dir |-> "d1", name |-> <<"c","-","1",".","x",".","r","p","m">>,
   isfile |-> TRUE, islink |-> FALSE, readable |-> TRUE, sizeok |-> TRUE,
   hname |-> "c", harch |-> "x", evr |-> <<0, 1, 0>>, size |-> 1],
  [dir |-> "d1", name |-> <<"a","-","1",".","5",".","x",".","r","p","m">>,
   isfile |-> TRUE, islink |-> FALSE, readable |-> FALSE, sizeok |-> TRUE,
   hname |-> "a", harch |-> "x", evr |-> <<0, 1, 5>>, size |-> 1]
>>

\* The files of Universe that the main specification may place on disk:
\* regular files with the suffix .rpm of several packages, versions and
\* architectures, one whose header cannot be read and one whose size cannot.
CoreFiles == 1..9

\* The files of the specification in which --srpm, --exclude and
\* --ignore-file-errors vary: two versions of a package as .rpm and as
\* .src.rpm, two unreadable files, the file without a size, a symbolic
\* link, a file that is not regular and a name that does not end in .rpm.
OptionFiles == {1, 2, 8, 9, 10, 11, 12, 13, 14, 18}

\* The files whose names the comparators are applied to on their own: names
\* of two, three and four dot-separated parts.
CmpFiles == {1, 4, 7, 15, 16, 17}

\* os.path.basename( path ).
basename(p) == Universe[p].name

(***************************************************************************)
(* Comparators.                                                            *)
(***************************************************************************)
\* rpm.versionCompare on two headers: epoch, then version, then release.
versionCompare(h1, h2) ==
    IF h1[1] # h2[1] THEN cmp(h1[1], h2[1])
    ELSE IF h1[2] # h2[2] THEN cmp(h1[2], h2[2])
    ELSE cmp(h1[3], h2[3])

\* Mutant of cmp_RpmData_by_version: a version that is not older counts as
\* newer.
cmp_RpmData_by_version_NeverEqual(a, b) ==
    IF versionCompare(Universe[a.header].evr, Universe[b.header].evr) < 0
    THEN -1 ELSE 1

cmp_RpmData_by_version(a, b) ==
    versionCompare(Universe[a.header].evr, Universe[b.header].evr)

cmp_paths_by_filename(a, b) == StrCmp(basename(a), basename(b))

\* The part of cmp_paths_by_pkg_name_and_arch that runs when both names
\* have more than two parts and result is the comparison of the
\* architecture parts.  The branch for fewer than four parts calls
\* cmp_paths_by_filename and drops its value, so result stays 0 there.
CmpNameParts(a_parts, b_parts, result) ==
    IF result = 0
    THEN IF Len(a_parts) > 3 /\ Len(b_parts) > 3
         THEN ListCmp(SubSeq(a_parts, 1, Len(a_parts) - 3),
                      SubSeq(b_parts, 1, Len(b_parts) - 3))
         ELSE 0
    ELSE result

CmpParts(a_parts, b_parts, a, b) ==
    IF Len(a_parts) > 2 /\ Len(b_parts) > 2
    THEN CmpNameParts(a_parts, b_parts,
                      StrCmp(a_parts[Len(a_parts) - 1],
                             b_parts[Len(b_parts) - 1]))
    ELSE cmp_paths_by_filename(a, b)

cmp_paths_by_pkg_name_and_arch(a, b) ==
    CmpParts(Split(basename(a)), Split(basename(b)), a, b)

(***************************************************************************)
(* list.sort( key = cmp_to_key( f ) ) and list.reverse().  For lists of    *)
(* fewer than 64 elements CPython finds the initial run (reversing a       *)
(* strictly descending one) and extends it by binary insertion; the only   *)
(* comparison used is K(x) < K(y), that is f(x, y) < 0.                    *)
(***************************************************************************)
ISLT(kind, x, y) ==
    CASE kind = "filename" -> cmp_paths_by_filename(x, y) < 0
      [] kind = "name_arch" -> cmp_paths_by_pkg_name_and_arch(x, y) < 0
      [] kind = "version" -> cmp_RpmData_by_version(x, y) < 0

Reverse(s) == [k \in 1..Len(s) |-> s[Len(s) + 1 - k]]

\* count_run: the length of the run that starts the list, given whether it
\* is strictly descending.
RECURSIVE RunLen(_, _, _, _)
RunLen(kind, s, k, desc) ==
    IF k = Len(s) THEN k
    ELSE IF ISLT(kind, s[k + 1], s[k]) = desc THEN RunLen(kind, s, k + 1, desc)
    ELSE k

\* binarysort: the insertion point of pivot in the sorted prefix, found by
\* bisection between offsets l and r.
RECURSIVE BinPos(_, _, _, _, _)
BinPos(kind, s, pivot, l, r) ==
    IF l >= r THEN l
    ELSE IF ISLT(kind, pivot, s[l + ((r - l) \div 2) + 1])
    THEN BinPos(kind, s, pivot, l, l + ((r - l) \div 2))
    ELSE BinPos(kind, s, pivot, l + ((r - l) \div 2) + 1, r)

\* s with the element at index start moved to offset l of the prefix.
InsertAt(s, start, l) ==
    SubSeq(s, 1, l) \o <<s[start]>> \o SubSeq(s, l + 1, start - 1)
      \o SubSeq(s, start + 1, Len(s))

RECURSIVE BinarySort(_, _, _)
BinarySort(kind, s, start) ==
    IF start > Len(s) THEN s
    ELSE BinarySort(kind,
                    InsertAt(s, start, BinPos(kind, s, s[start], 0, start - 1)),
                    start + 1)

\* The list with its initial run of length n put in ascending order.
WithRun(s, desc, n) ==
    (IF desc THEN Reverse(SubSeq(s, 1, n)) ELSE SubSeq(s, 1, n))
      \o SubSeq(s, n + 1, Len(s))

SortFromRun(kind, s, desc, n) == BinarySort(kind, WithRun(s, desc, n), n + 1)

SortRun(kind, s, desc) == SortFromRun(kind, s, desc, RunLen(kind, s, 2, desc))

ListSort(kind, s) ==
    IF Len(s) < 2 THEN s ELSE SortRun(kind, s, ISLT(kind, s[2], s[1]))

(***************************************************************************)
(* State.                                                                  *)
(***************************************************************************)
VARIABLES
    fs,                \* the files on disk (indices into Universe)
    search_dir_paths,  \* the --dir options, in command-line order
    num_obsolete,      \* --num-obsolete, already coerced to >= 0
    g_ignore_arch,     \* --ignore-arch
    quiet,             \* the effective logging level is above INFO
    force_del,         \* --force
    srpm_mode,         \* --srpm
    excluded,          \* the compiled --exclude expressions (literal texts)
    ignore_file_errors,\* --ignore-file-errors
    pc,                \* position in tidy_rpm_cache / main
    rpm_paths,         \* the list returned by find_rpms, later sorted
    i,                 \* index of the next path of the scan (1-based)
    last_package_tag,  \* find_obsolete_rpms: tag of the previous record
    rpm_data_list,     \* find_obsolete_rpms: the group being collected
    run_data,          \* the RunData object
    g_display_header,  \* the heading row has not been displayed yet
    calls,             \* history: one record per call of process_rpm_group
    user_choice,       \* delete_obsolete_rpms: the last answer
    prompts,           \* number of answers read so far
    removed,           \* the files os.remove has deleted
    exit_status,       \* -1 while running, else the exit status of the process
    exception,         \* the exception that ended the run ("": none)
    warnings,          \* the g_logger.warn calls about file errors, in order
    answer,            \* delete_obsolete_rpms: what was typed last at the prompt
    attempts,          \* delete_obsolete_rpms: the os.remove calls made
    results            \* the values returned by comparators applied on their own

vars == << fs, search_dir_paths, num_obsolete, g_ignore_arch, quiet, force_del,
           srpm_mode, excluded, pc, rpm_paths, i, last_package_tag,
           rpm_data_list, run_data, g_display_header, calls, user_choice,
           prompts, removed, exit_status, ignore_file_errors, exception,
           warnings, answer, attempts, results >>

options == << fs, search_dir_paths, num_obsolete, g_ignore_arch, quiet,
              force_del, srpm_mode, excluded, ignore_file_errors >>

\* What no step of tidy_rpm_cache before the report changes.
tail == << user_choice, prompts, removed, warnings, answer, attempts,
           results >>

\* RunData.__init__
RunData == [obs_paths |-> <<>>, file_errors |-> <<>>,
            total_found |-> 0, total_obs_size |-> 0]

\* RpmData.__init__( header, path ).  header and path are both given by the
\* file; pos is the index in rpm_paths the object was created for (the
\* identity of the instance).
RpmData(header, path, pos) ==
    [header |-> header, path |-> path, size |-> -1, pos |-> pos]

\* All sequences over S of length lo..hi.
SeqsOf(S, lo, hi) == UNION {[1..n -> S] : n \in lo..hi}

\* The state every specification starts from, but for the options and the
\* lists of paths and of records.
Start ==
    /\ last_package_tag = ""
    /\ run_data = RunData
    /\ g_display_header = TRUE
    /\ calls = <<>>
    /\ user_choice = ""
    /\ prompts = 0
    /\ removed = {}
    /\ exit_status = -1
    /\ exception = ""
    /\ warnings = <<>>
    /\ answer = [kind |-> "none", val |-> ""]
    /\ attempts = 0
    /\ results = <<>>

Init ==
    /\ fs \in {F \in SUBSET CoreFiles : Cardinality(F) <= MaxFiles}
    /\ search_dir_paths \in SeqsOf(Dirs, 1, MaxDirs)
    /\ num_obsolete \in 0..MaxObsolete
    /\ g_ignore_arch \in BOOLEAN
    /\ quiet \in BOOLEAN
    /\ force_del \in BOOLEAN
    /\ srpm_mode = FALSE
    /\ excluded = <<>>
    /\ ignore_file_errors = FALSE
    /\ pc = "find"
    /\ rpm_paths = <<>>
    /\ i = 1
    /\ rpm_data_list = <<>>
    /\ Start

(***************************************************************************)
(* find_rpms                                                               *)
(***************************************************************************)
\* The files os.walk( dir_path ) yields, in directory-listing order.
Walk(dir_path) ==
    LET S == {f \in fs : Universe[f].dir = dir_path}
        RECURSIVE Listing(_)
        Listing(T) == IF T = {} THEN <<>>
                      ELSE LET f == CHOOSE x \in T : \A y \in T : x <= y
                           IN  <<f>> \o Listing(T \ {f})
    IN  Listing(S)

\* Mutant of Accepted: the test for a symbolic link is missing.
Accepted_NoLinkTest(f, excl, srpm) ==
    LET file_name == Universe[f].name
        rpm == <<".", "r", "p", "m">>
        src_rpm == <<".", "s", "r", "c", ".", "r", "p", "m">>
    IN  /\ Universe[f].isfile
        /\ EndsWith(file_name, rpm)
        /\ (EndsWith(file_name, src_rpm) <=> srpm)
        /\ ~\E k \in 1..Len(excl) : Search(excl[k], file_name)

\* The tests of the inner loop of find_rpms on one file.
Accepted(f, excl, srpm) ==
    LET file_name == Universe[f].name
        rpm == <<".", "r", "p", "m">>
        src_rpm == <<".", "s", "r", "c", ".", "r", "p", "m">>
    IN  /\ Universe[f].isfile
        /\ ~Universe[f].islink
        /\ EndsWith(file_name, rpm)
        /\ (EndsWith(file_name, src_rpm) <=> srpm)
        /\ ~\E k \in 1..Len(excl) : Search(excl[k], file_name)

RECURSIVE find_rpms(_, _, _)
find_rpms(dirs, excl, srpm) ==
    IF dirs = <<>> THEN <<>>
    ELSE SelectSeq(Walk(Head(dirs)), LAMBDA f : Accepted(f, excl, srpm))
           \o find_rpms(Tail(dirs), excl, srpm)

\* tidy_rpm_cache: find the files; return at once when there is none.
FindRpms ==
    /\ pc = "find"
    /\ rpm_paths' = find_rpms(search_dir_paths, excluded, srpm_mode)
    /\ run_data' = [run_data EXCEPT !.total_found = Len(rpm_paths')]
    /\ IF Len(rpm_paths') > 0
       THEN pc' = "sort" /\ exit_status' = exit_status
       ELSE pc' = "done" /\ exit_status' = 0
    /\ exception' = exception
    /\ UNCHANGED << options, i, last_package_tag, rpm_data_list,
                    g_display_header, calls, tail >>

\* tidy_rpm_cache: sort the paths by file name, or by architecture and name.
SortedPaths(paths, ignore_arch) ==
    IF ignore_arch THEN ListSort("filename", paths)
    ELSE ListSort("name_arch", paths)

SortPaths ==
    /\ pc = "sort"
    /\ rpm_paths' = SortedPaths(rpm_paths, g_ignore_arch)
    /\ pc' = "scan"
    /\ UNCHANGED << options, i, last_package_tag, rpm_data_list, run_data,
                    g_display_header, calls, tail, exit_status, exception >>

(***************************************************************************)
(* process_rpm_group                                                       *)
(***************************************************************************)
\* os.path.getsize( path ): the size, or -1 for an os.error.
getsize(path) == IF Universe[path].sizeok THEN Universe[path].size ELSE -1

\* display_pkg_summary: display_pkg_info on every record of the list in
\* order; each fills in a missing size and raises when the lookup fails.
RECURSIVE display_pkg_summary(_, _)
display_pkg_summary(list, k) ==
    IF k > Len(list) THEN [list |-> list, raised |-> FALSE]
    ELSE IF list[k].size >= 0 THEN display_pkg_summary(list, k + 1)
    ELSE IF getsize(list[k].path) < 0 THEN [list |-> list, raised |-> TRUE]
    ELSE display_pkg_summary([list EXCEPT ![k].size = getsize(list[k].path)],
                             k + 1)

\* The loop over rpm_data_list[ ( num_obsolete + 1 ):list_length ]: st holds
\* the list, the RunData object and the positions appended so far.
RECURSIVE MarkObsolete(_, _, _)
MarkObsolete(st, k, n) ==
    IF k > n THEN st
    ELSE LET obs_data == st.list[k]
             rd1 == [st.rd EXCEPT !.obs_paths = Append(@, obs_data.path)]
             sz == IF obs_data.size < 0 THEN getsize(obs_data.path)
                   ELSE obs_data.size
         IN  IF sz < 0
             THEN [st EXCEPT !.rd = rd1, !.added = Append(@, obs_data.pos),
                             !.raised = TRUE]
             ELSE MarkObsolete(
                    [st EXCEPT !.list[k].size = sz,
                               !.rd = [rd1 EXCEPT !.total_obs_size = @ + sz],
                               !.added = Append(@, obs_data.pos)],
                    k + 1, n)

\* Mutant of SortDescending: the reverse is forgotten.
SortDescending_NoReverse(list) == ListSort("version", list)

\* Mutant of SortDescending: a descending sort that keeps ties in entry
\* order.
SortDescending_Stable(list) == Reverse(ListSort("version", Reverse(list)))

\* Sort the list of packages by version descending: sort, then reverse.
SortDescending(list) == Reverse(ListSort("version", list))

\* The result of process_rpm_group: the list and RunData as the call leaves
\* them, the heading flag, whether an exception left the call, the
\* positions (pos) of the records whose path the call appended to
\* obs_paths, and whether the call got past the early return.
Returned(list, rd, hdr) ==
    [list |-> list, rd |-> rd, hdr |-> hdr, raised |-> FALSE,
     added |-> <<>>, split |-> FALSE]

Marked(st, hdr) ==
    [list |-> st.list, rd |-> st.rd, hdr |-> hdr, raised |-> st.raised,
     added |-> st.added, split |-> TRUE]

\* Mutant of MarkSorted: the slice starts one record too early.
MarkSorted_OffByOne(sorted, rd, r, hdr) ==
    Marked(MarkObsolete([list |-> sorted, rd |-> rd, added |-> <<>>,
                         raised |-> FALSE],
                        r + 1, Len(sorted)),
           hdr)

\* The marking loop over a sorted list.
MarkSorted(sorted, rd, r, hdr) ==
    Marked(MarkObsolete([list |-> sorted, rd |-> rd, added |-> <<>>,
                         raised |-> FALSE],
                        r + 2, Len(sorted)),
           hdr)

\* After display_pkg_summary: its exception leaves the call, else mark.
AfterDisplay(shown, rd, r) ==
    IF shown.raised
    THEN [list |-> shown.list, rd |-> rd, hdr |-> FALSE, raised |-> TRUE,
          added |-> <<>>, split |-> TRUE]
    ELSE MarkSorted(shown.list, rd, r, FALSE)

\* The summary is displayed only at logging level INFO or lower.
SplitSorted(sorted, rd, r, hdr) ==
    IF quiet THEN MarkSorted(sorted, rd, r, hdr)
    ELSE AfterDisplay(display_pkg_summary(sorted, 1), rd, r)

\* process_rpm_group( rpm_data_list, run_data, num_obsolete )
process_rpm_group(list, rd, r, hdr) ==
    IF Len(list) <= r + 1 THEN Returned(list, rd, hdr)
    ELSE SplitSorted(SortDescending(list), rd, r, hdr)

\* The history record of one call: the list on entry and on exit, the
\* retention count, what the call did, and the length of obs_paths and the
\* value of total_obs_size before and after it.
CallRecord(list, rd, res, r) ==
    [entry |-> list, exit |-> res.list, r |-> r, added |-> res.added,
     raised |-> res.raised, split |-> res.split,
     obs_from |-> Len(rd.obs_paths), obs_to |-> Len(res.rd.obs_paths),
     total_from |-> rd.total_obs_size, total_to |-> res.rd.total_obs_size]

(***************************************************************************)
(* find_obsolete_rpms                                                      *)
(***************************************************************************)
\* The header read: hdrFromFdno gives the header, or the read fails.
Readable(path) == Universe[path].readable

\* current_rpm_tag: the name, with the architecture appended unless
\* --ignore-arch.
Tag(path, ignore_arch) ==
    IF ignore_arch THEN Universe[path].hname
    ELSE Universe[path].hname \o Universe[path].harch

\* The message appended to run_data.file_errors for a failed read.
FileError(path) == [msg |-> "Unable to read RPM file", path |-> path]

\* Mutant of ReadFailed: the failure is not recorded.
ReadFailed_NoMessage(path) ==
    /\ i' = i + 1
    /\ UNCHANGED << pc, last_package_tag, rpm_data_list, run_data,
                    g_display_header, calls, exit_status, exception >>

\* Mutant of ReadFailed: the group being collected is dropped.
ReadFailed_ClearsList(path) ==
    /\ run_data' = [run_data EXCEPT !.file_errors = Append(@, FileError(path))]
    /\ i' = i + 1
    /\ rpm_data_list' = <<>>
    /\ UNCHANGED << pc, last_package_tag, g_display_header, calls,
                    exit_status, exception >>

\* The read of path failed: record the error and continue with the next.
ReadFailed(path) ==
    /\ run_data' = [run_data EXCEPT !.file_errors = Append(@, FileError(path))]
    /\ i' = i + 1
    /\ UNCHANGED << pc, last_package_tag, rpm_data_list, g_display_header,
                    calls, exit_status, exception >>

\* The elif branches read list_length, a name find_obsolete_rpms never
\* binds: the NameError ends the run in main.
NameError ==
    /\ pc' = "failed"
    /\ exit_status' = 1
    /\ exception' = "NameError: list_length"
    /\ UNCHANGED << i, last_package_tag, rpm_data_list, run_data,
                    g_display_header, calls >>

\* Mutant of GroupDone: the list is not emptied before the append.
GroupDone_NoClear(res, path, current_rpm_tag) ==
    /\ calls' = Append(calls, CallRecord(rpm_data_list, run_data, res,
                                         num_obsolete))
    /\ run_data' = res.rd
    /\ g_display_header' = res.hdr
    /\ IF res.raised
       THEN /\ pc' = "failed"
            /\ exit_status' = 1
            /\ exception' = "os.error"
            /\ rpm_data_list' = res.list
            /\ UNCHANGED << i, last_package_tag >>
       ELSE /\ rpm_data_list' = Append(res.list, RpmData(path, path, i))
            /\ last_package_tag' = current_rpm_tag
            /\ i' = i + 1
            /\ UNCHANGED << pc, exit_status, exception >>

\* Mutant of GroupDone: the list is emptied but the record of the new
\* package is not appended.
GroupDone_NoAppend(res, path, current_rpm_tag) ==
    /\ calls' = Append(calls, CallRecord(rpm_data_list, run_data, res,
                                         num_obsolete))
    /\ run_data' = res.rd
    /\ g_display_header' = res.hdr
    /\ IF res.raised
       THEN /\ pc' = "failed"
            /\ exit_status' = 1
            /\ exception' = "os.error"
            /\ rpm_data_list' = res.list
            /\ UNCHANGED << i, last_package_tag >>
       ELSE /\ rpm_data_list' = <<>>
            /\ last_package_tag' = current_rpm_tag
            /\ i' = i + 1
            /\ UNCHANGED << pc, exit_status, exception >>

\* The tag changed: the previous group has been processed with result res;
\* unless that raised, the list is emptied and the record appended.
GroupDone(res, path, current_rpm_tag) ==
    /\ calls' = Append(calls, CallRecord(rpm_data_list, run_data, res,
                                         num_obsolete))
    /\ run_data' = res.rd
    /\ g_display_header' = res.hdr
    /\ IF res.raised
       THEN /\ pc' = "failed"
            /\ exit_status' = 1
            /\ exception' = "os.error"
            /\ rpm_data_list' = res.list
            /\ UNCHANGED << i, last_package_tag >>
       ELSE /\ rpm_data_list' = << RpmData(path, path, i) >>
            /\ last_package_tag' = current_rpm_tag
            /\ i' = i + 1
            /\ UNCHANGED << pc, exit_status, exception >>

\* The tag did not change (or this is the first record): append.
Collect(path, current_rpm_tag) ==
    /\ rpm_data_list' = Append(rpm_data_list, RpmData(path, path, i))
    /\ last_package_tag' = current_rpm_tag
    /\ i' = i + 1
    /\ UNCHANGED << pc, run_data, g_display_header, calls, exit_status,
                    exception >>

ScanRecord(path, current_rpm_tag) ==
    IF current_rpm_tag # last_package_tag /\ last_package_tag # ""
    THEN IF Len(rpm_data_list) > 0
         THEN GroupDone(process_rpm_group(rpm_data_list, run_data,
                                          num_obsolete, g_display_header),
                        path, current_rpm_tag)
         ELSE NameError
    ELSE Collect(path, current_rpm_tag)

\* One iteration of 'for path in rpm_paths'.
ScanStep ==
    /\ pc = "scan"
    /\ i <= Len(rpm_paths)
    /\ IF Readable(rpm_paths[i])
       THEN ScanRecord(rpm_paths[i], Tag(rpm_paths[i], g_ignore_arch))
       ELSE ReadFailed(rpm_paths[i])
    /\ UNCHANGED << options, rpm_paths, tail >>

\* The last group has been processed with result res.
LastGroupDone(res) ==
    /\ calls' = Append(calls, CallRecord(rpm_data_list, run_data, res,
                                         num_obsolete))
    /\ rpm_data_list' = res.list
    /\ run_data' = res.rd
    /\ g_display_header' = res.hdr
    /\ IF res.raised
       THEN pc' = "failed" /\ exit_status' = 1 /\ exception' = "os.error"
       ELSE pc' = "report" /\ UNCHANGED << exit_status, exception >>

\* The code after the loop: process the last group, then return to
\* tidy_rpm_cache.
ScanEnd ==
    /\ pc = "scan"
    /\ i > Len(rpm_paths)
    /\ IF Len(rpm_data_list) > 0
       THEN LastGroupDone(process_rpm_group(rpm_data_list, run_data,
                                            num_obsolete, g_display_header))
       ELSE IF last_package_tag # ""
       THEN NameError
       ELSE /\ pc' = "report"
            /\ UNCHANGED << rpm_data_list, run_data, g_display_header,
                            calls, exit_status, exception >>
    /\ UNCHANGED << options, rpm_paths, i, last_package_tag, tail >>

(***************************************************************************)
(* tidy_rpm_cache after the scan, and delete_obsolete_rpms                 *)
(***************************************************************************)
\* Mutant of Warned: --ignore-file-errors is not looked at.
Warned_Always(file_errors, ignore) ==
    IF Len(file_errors) > 0
    THEN << [msg |-> "file errors occurred", count |-> Len(file_errors)] >>
           \o file_errors
    ELSE <<>>

\* The g_logger.warn calls of tidy_rpm_cache after the scan: unless
\* --ignore-file-errors, and when there is a file error, the count and then
\* every entry of run_data.file_errors in order.
Warned(file_errors, ignore) ==
    IF ~ignore /\ Len(file_errors) > 0
    THEN << [msg |-> "file errors occurred", count |-> Len(file_errors)] >>
           \o file_errors
    ELSE <<>>

\* tidy_rpm_cache after find_obsolete_rpms has returned: warn about the file
\* errors; then, with obsolete paths, enter delete_obsolete_rpms (which
\* prompts unless --force), and without, report that nothing was found.
Report ==
    /\ pc = "report"
    /\ warnings' = warnings \o Warned(run_data.file_errors, ignore_file_errors)
    /\ IF Len(run_data.obs_paths) > 0
       THEN /\ pc' = IF force_del THEN "delete" ELSE "confirm"
            /\ exit_status' = exit_status
       ELSE /\ pc' = "done"
            /\ exit_status' = 0
    /\ UNCHANGED << options, rpm_paths, i, last_package_tag, rpm_data_list,
                    run_data, g_display_header, calls, user_choice, prompts,
                    removed, exception, answer, attempts, results >>

\* What the user may type at the prompt, as eval( input( ... ) ) sees it:
\* a quoted text evaluates to that text, the bare letter y is an undefined
\* name, and Ctrl-C raises KeyboardInterrupt.
Answers == { [kind |-> "str", val |-> "y"], [kind |-> "str", val |-> "Y"],
             [kind |-> "str", val |-> "n"], [kind |-> "str", val |-> "x"],
             [kind |-> "name", val |-> "y"],
             [kind |-> "interrupt", val |-> ""] }

\* str.lower() on the answers of the model.
Lower(c) == IF c = "Y" THEN "y" ELSE c

\* One pass of the while loop of delete_obsolete_rpms.
Prompt ==
    /\ pc = "confirm"
    /\ prompts < MaxPrompts
    /\ \E typed \in Answers :
         /\ prompts' = prompts + 1
         /\ answer' = typed
         /\ IF typed.kind = "interrupt"
            THEN pc' = "done" /\ exit_status' = 0
                   /\ UNCHANGED << user_choice, exception >>
            ELSE IF typed.kind = "name"
            THEN pc' = "failed" /\ exit_status' = 1
                   /\ exception' = "NameError: " \o typed.val
                   /\ user_choice' = user_choice
            ELSE /\ user_choice' = typed.val
                 /\ exception' = exception
                 /\ IF Lower(typed.val) = "y"
                    THEN pc' = "delete" /\ exit_status' = exit_status
                    ELSE IF Lower(typed.val) = "n"
                    THEN pc' = "done" /\ exit_status' = 0
                    ELSE pc' = "confirm" /\ exit_status' = exit_status
    /\ UNCHANGED << options, rpm_paths, i, last_package_tag, rpm_data_list,
                    run_data, g_display_header, calls, removed, warnings,
                    attempts, results >>

\* Mutant of RemoveAll: a failed os.remove is passed over and the loop goes
\* on with the next path.
RECURSIVE RemoveAll_Continue(_, _, _, _)
RemoveAll_Continue(paths, k, gone, envfail) ==
    IF k > Len(paths)
    THEN [removed |-> gone, failed |-> envfail # 0, attempts |-> Len(paths)]
    ELSE IF paths[k] \in gone \/ k = envfail
    THEN RemoveAll_Continue(paths, k + 1, gone, envfail)
    ELSE RemoveAll_Continue(paths, k + 1, gone \cup {paths[k]}, envfail)

\* The loop 'for file_path in run_data.obs_paths': os.remove fails for a
\* path that is already gone and at the position envfail (0: nowhere) where
\* the file system refuses; the first failure ends the process.  attempts
\* counts the os.remove calls made.
RECURSIVE RemoveAll(_, _, _, _)
RemoveAll(paths, k, gone, envfail) ==
    IF k > Len(paths)
    THEN [removed |-> gone, failed |-> FALSE, attempts |-> Len(paths)]
    ELSE IF paths[k] \in gone \/ k = envfail
    THEN [removed |-> gone, failed |-> TRUE, attempts |-> k]
    ELSE RemoveAll(paths, k + 1, gone \cup {paths[k]}, envfail)

\* The end of the removal loop: sys.exit( 1 ) after a failure.
Removed(res) ==
    /\ removed' = res.removed
    /\ attempts' = res.attempts
    /\ IF res.failed
       THEN pc' = "failed" /\ exit_status' = 1 /\ exception' = "SystemExit"
       ELSE pc' = "done" /\ exit_status' = 0 /\ exception' = exception

Delete ==
    /\ pc = "delete"
    /\ \E envfail \in 0..Len(run_data.obs_paths) :
         Removed(RemoveAll(run_data.obs_paths, 1, removed, envfail))
    /\ UNCHANGED << options, rpm_paths, i, last_package_tag, rpm_data_list,
                    run_data, g_display_header, calls, user_choice, prompts,
                    warnings, answer, results >>

Next ==
    \/ FindRpms
    \/ SortPaths
    \/ ScanStep
    \/ ScanEnd
    \/ Report
    \/ Prompt
    \/ Delete

Spec == Init /\ [][Next]_vars

(***************************************************************************)
(* The run with --srpm, --exclude and --ignore-file-errors given or not,   *)
(* over the files of OptionFiles in one directory.                         *)
(***************************************************************************)
\* The lists of compiled --exclude expressions: none, one that matches the
\* files of version 2, and two of which the second matches those of
\* version 0.
ExcludeChoices ==
    { <<>>,
      << <<"a", "-", "2">> >>,
      << <<"a", "-", "3">>, <<"a", "-", "0">> >> }

InitOptions ==
    /\ fs \in {F \in SUBSET OptionFiles : Cardinality(F) <= MaxFiles}
    /\ search_dir_paths = << "d1" >>
    /\ num_obsolete \in 0..MaxObsolete
    /\ g_ignore_arch = FALSE
    /\ quiet = TRUE
    /\ force_del \in BOOLEAN
    /\ srpm_mode \in BOOLEAN
    /\ excluded \in ExcludeChoices
    /\ ignore_file_errors \in BOOLEAN
    /\ pc = "find"
    /\ rpm_paths = <<>>
    /\ i = 1
    /\ rpm_data_list = <<>>
    /\ Start

SpecOptions == InitOptions /\ [][Next]_vars

(***************************************************************************)
(* process_rpm_group called twice on one list.  The run holds the records  *)
(* of one group (files of one package and architecture, each at its        *)
(* position in rpm_paths) and calls process_rpm_group on the list, then    *)
(* again on the list as the first call left it, with the same RunData      *)
(* object and the same num_obsolete.                                       *)
(***************************************************************************)
\* The files of CoreFiles that the scan puts in one group in either mode.
GroupFiles == {f \in CoreFiles : /\ Universe[f].readable
                                 /\ Universe[f].hname = "a"
                                 /\ Universe[f].harch = "x"}

\* The lists of lo..hi different files of S.
ListsOf(S, lo, hi) ==
    {l \in SeqsOf(S, lo, hi) :
       \A x \in 1..Len(l) : \A y \in 1..Len(l) : l[x] = l[y] => x = y}

\* The records find_obsolete_rpms builds for the paths of a list.
RecordsOf(paths) == [k \in 1..Len(paths) |-> RpmData(paths[k], paths[k], k)]

InitGroup ==
    /\ rpm_paths \in ListsOf(GroupFiles, 1, MaxFiles)
    /\ fs = {rpm_paths[k] : k \in 1..Len(rpm_paths)}
    /\ search_dir_paths = << "d1", "d2" >>
    /\ num_obsolete \in 0..MaxObsolete
    /\ g_ignore_arch = FALSE
    /\ quiet \in BOOLEAN
    /\ force_del = FALSE
    /\ srpm_mode = FALSE
    /\ excluded = <<>>
    /\ ignore_file_errors = FALSE
    /\ pc = "group"
    /\ i = Len(rpm_paths) + 1
    /\ rpm_data_list = RecordsOf(rpm_paths)
    /\ Start

\* The state after a call of process_rpm_group with result res.
Called(res) ==
    /\ calls' = Append(calls, CallRecord(rpm_data_list, run_data, res,
                                         num_obsolete))
    /\ rpm_data_list' = res.list
    /\ run_data' = res.rd
    /\ g_display_header' = res.hdr
    /\ IF res.raised
       THEN pc' = "failed" /\ exit_status' = 1 /\ exception' = "os.error"
       ELSE UNCHANGED << pc, exit_status, exception >>

\* process_rpm_group( rpm_data_list, run_data, num_obsolete ), at most twice.
CallGroup ==
    /\ pc = "group"
    /\ Len(calls) < 2
    /\ Called(process_rpm_group(rpm_data_list, run_data, num_obsolete,
                                g_display_header))
    /\ UNCHANGED << options, rpm_paths, i, last_package_tag, tail >>

NextGroup == CallGroup

SpecGroup == InitGroup /\ [][NextGroup]_vars

(***************************************************************************)
(* The comparators applied on their own: three paths, and the records      *)
(* find_obsolete_rpms builds for them, are compared pairwise.              *)
(***************************************************************************)
\* The values cmp_paths_by_pkg_name_and_arch returns for every ordered pair
\* of the paths of a list.
PathCmps(paths) ==
    [x \in 1..Len(paths) |->
       [y \in 1..Len(paths) |->
          cmp_paths_by_pkg_name_and_arch(paths[x], paths[y])]]

\* The values cmp_RpmData_by_version returns for every ordered pair of the
\* records of a list.
VersionCmps(list) ==
    [x \in 1..Len(list) |->
       [y \in 1..Len(list) |-> cmp_RpmData_by_version(list[x], list[y])]]

InitCmp ==
    /\ rpm_paths \in [1..3 -> CmpFiles \cup GroupFiles]
    /\ fs = {rpm_paths[k] : k \in 1..Len(rpm_paths)}
    /\ search_dir_paths = << "d1", "d2" >>
    /\ num_obsolete = 0
    /\ g_ignore_arch = FALSE
    /\ quiet = TRUE
    /\ force_del = FALSE
    /\ srpm_mode = FALSE
    /\ excluded = <<>>
    /\ ignore_file_errors = FALSE
    /\ pc = "compare"
    /\ i = 1
    /\ rpm_data_list = RecordsOf(rpm_paths)
    /\ Start

\* Every pair of the paths is compared with cmp_paths_by_pkg_name_and_arch
\* and every pair of the records with cmp_RpmData_by_version.
Compare ==
    /\ pc = "compare"
    /\ results' = [paths |-> PathCmps(rpm_paths),
                   versions |-> VersionCmps(rpm_data_list)]
    /\ pc' = "compared"
    /\ UNCHANGED << options, rpm_paths, i, last_package_tag, rpm_data_list,
                    run_data, g_display_header, calls, user_choice, prompts,
                    removed, exit_status, exception, warnings, answer,
                    attempts >>

NextCmp == Compare

SpecCmp == InitCmp /\ [][NextCmp]_vars

(***************************************************************************)
(* Properties.                                                             *)
(***************************************************************************)
Min(a, b) == IF a <= b THEN a ELSE b

CallIds == 1..Len(calls)

\* The positions (indices of rpm_paths) of the records of a list.
Positions(list) == {list[k].pos : k \in 1..Len(list)}

\* The records of a call whose path the call appended to obs_paths, and the
\* others, by position.
Obsolete(c) == {c.added[k] : k \in 1..Len(c.added)}

Retained(c) == Positions(c.entry) \ Obsolete(c)

\* The header version of the record at a position.
Version(p) == Universe[rpm_paths[p]].evr

\* The IdentityKey of a file: the header name, with the header architecture
\* unless --ignore-arch.
IdentityKey(path) ==
    IF g_ignore_arch THEN << Universe[path].hname >>
    ELSE << Universe[path].hname, Universe[path].harch >>

\* The positions of rpm_paths whose header was read.
ReadPositions == {p \in 1..Len(rpm_paths) : Readable(rpm_paths[p])}

\* The set of paths in run_data.obs_paths.
ObsPathSet == {run_data.obs_paths[k] : k \in 1..Len(run_data.obs_paths)}

\* C1: every call of process_rpm_group that returns has split its group G
\* into the records whose path it appended to run_data.obs_paths (obsolete)
\* and the others (retained) with |retained| = min(|G|, r+1) and
\* |retained| + |obsolete| = |G|; the paths it appended are those of the
\* obsolete records.
C1_PartitionSizes ==
    \A k \in CallIds :
        LET c == calls[k]
        IN  ~c.raised =>
              /\ Cardinality(Positions(c.entry)) = Len(c.entry)
              /\ Cardinality(Obsolete(c)) = Len(c.added)
              /\ Obsolete(c) \subseteq Positions(c.entry)
              /\ Cardinality(Retained(c)) = Min(Len(c.entry), c.r + 1)
              /\ Cardinality(Retained(c)) + Cardinality(Obsolete(c))
                   = Len(c.entry)
              /\ c.obs_to - c.obs_from = Len(c.added)
              /\ \A j \in 1..Len(c.added) :
                   run_data.obs_paths[c.obs_from + j] = rpm_paths[c.added[j]]

\* A call returned after marking some records of a group larger than r+1.
C1_Witness ==
    \E k \in CallIds :
        /\ ~calls[k].raised
        /\ Len(calls[k].entry) > calls[k].r + 1
        /\ Len(calls[k].added) >= 1
        /\ calls[k].r = 1

\* C2: in every group a returned call has split, no record whose path was
\* appended to run_data.obs_paths has a version strictly greater than the
\* version of a retained record of the group.
C2_NewestRetained ==
    \A k \in CallIds :
        LET c == calls[k]
        IN  ~c.raised =>
              \A o \in Obsolete(c) : \A t \in Retained(c) :
                  versionCompare(Version(o), Version(t)) <= 0

\* A returned call split a group that entered in another order than newest
\* first and marked a record strictly older than a retained one.
C2_Witness ==
    \E k \in CallIds :
        /\ ~calls[k].raised
        /\ calls[k].exit # calls[k].entry
        /\ \E o \in Obsolete(calls[k]) : \E t \in Retained(calls[k]) :
               versionCompare(Version(o), Version(t)) < 0

\* C3: when find_obsolete_rpms has returned, any two records read
\* successfully that have the same IdentityKey were passed to
\* process_rpm_group in the same group, and at most r+1 records of an
\* IdentityKey are retained.
C3_OneGroupPerIdentity ==
    pc = "report" =>
      /\ \A p \in ReadPositions : \A q \in ReadPositions :
           IdentityKey(rpm_paths[p]) = IdentityKey(rpm_paths[q]) =>
             \E k \in CallIds : {p, q} \subseteq Positions(calls[k].entry)
      /\ \A p \in ReadPositions :
           Cardinality({q \in ReadPositions :
                          /\ IdentityKey(rpm_paths[q]) = IdentityKey(rpm_paths[p])
                          /\ \E k \in CallIds : q \in Retained(calls[k])})
             <= num_obsolete + 1

\* The positions of the records of the first n groups passed to
\* process_rpm_group, in order.
RECURSIVE GroupedPositions(_)
GroupedPositions(n) ==
    IF n = 0 THEN <<>>
    ELSE GroupedPositions(n - 1)
           \o [j \in 1..Len(calls[n].entry) |-> calls[n].entry[j].pos]

\* C4: no record is in two groups (or twice in one), nor in a processed
\* group and in the group being collected; every record carries the path it
\* was read from; and when find_obsolete_rpms has returned, every path read
\* successfully is in exactly one group passed to process_rpm_group and a
\* path whose read failed is in none.
C4_ExactlyOneGroup ==
    LET f == GroupedPositions(Len(calls))
    IN  /\ \A x \in 1..Len(f) : \A y \in 1..Len(f) : f[x] = f[y] => x = y
        /\ pc = "scan" =>
             \A k \in 1..Len(rpm_data_list) : \A x \in 1..Len(f) :
                 f[x] # rpm_data_list[k].pos
        /\ pc = "report" => {f[x] : x \in 1..Len(f)} = ReadPositions
        /\ \A k \in CallIds : \A j \in 1..Len(calls[k].entry) :
             /\ calls[k].entry[j].pos \in 1..Len(rpm_paths)
             /\ calls[k].entry[j].path = rpm_paths[calls[k].entry[j].pos]

\* find_obsolete_rpms returned after processing two groups or more and
\* skipping a file it could not read.
C4_Witness ==
    /\ pc = "report"
    /\ Len(calls) >= 2
    /\ Len(run_data.file_errors) >= 1

\* C5: all records of a group passed to process_rpm_group have the same
\* IdentityKey.
C5_GroupsHomogeneous ==
    \A k \in CallIds :
        \A x \in 1..Len(calls[k].entry) : \A y \in 1..Len(calls[k].entry) :
            IdentityKey(calls[k].entry[x].path)
              = IdentityKey(calls[k].entry[y].path)

\* C6: when find_obsolete_rpms has returned, no path of a retained record
\* is in run_data.obs_paths and no path occurs twice in run_data.obs_paths.
C6_PathRetainedOrObsolete ==
    pc = "report" =>
      /\ \A k \in CallIds : \A t \in Retained(calls[k]) :
           rpm_paths[t] \notin ObsPathSet
      /\ \A x \in 1..Len(run_data.obs_paths) :
           \A y \in 1..Len(run_data.obs_paths) :
             run_data.obs_paths[x] = run_data.obs_paths[y] => x = y

\* C7: when find_obsolete_rpms has returned, every IdentityKey with a file
\* read successfully has a file of its greatest version outside
\* run_data.obs_paths; and a call on a group of at most r+1 records leaves
\* obs_paths and total_obs_size as they were.
C7_NewestNeverObsolete ==
    /\ pc = "report" =>
         \A p \in ReadPositions :
           \E q \in ReadPositions :
             /\ IdentityKey(rpm_paths[q]) = IdentityKey(rpm_paths[p])
             /\ \A s \in ReadPositions :
                  IdentityKey(rpm_paths[s]) = IdentityKey(rpm_paths[p])
                    => versionCompare(Version(s), Version(q)) <= 0
             /\ rpm_paths[q] \notin ObsPathSet
    /\ \A k \in CallIds :
         Len(calls[k].entry) <= calls[k].r + 1 =>
           /\ calls[k].obs_to = calls[k].obs_from
           /\ calls[k].total_to = calls[k].total_from

\* The messages a scan that has read the first n paths has recorded: one
\* for each of them whose read failed, in order.
RECURSIVE ErrorsOf(_)
ErrorsOf(n) ==
    IF n = 0 THEN <<>>
    ELSE IF Readable(rpm_paths[n]) THEN ErrorsOf(n - 1)
    ELSE Append(ErrorsOf(n - 1), FileError(rpm_paths[n]))

\* The iteration of the scan is at a path whose read fails.
AtUnreadable ==
    pc = "scan" /\ i <= Len(rpm_paths) /\ ~Readable(rpm_paths[i])

\* C8: a path whose read fails is in no group, not in run_data.obs_paths and
\* never removed; file_errors holds exactly one message for each failed read
\* so far; and the iteration that meets such a path appends that one
\* message, changes nothing else of the scan and goes on to the next path.
C8_FailedReadExcluded ==
    /\ [](/\ \A f \in 1..Len(Universe) :
                ~Readable(f) =>
                  /\ f \notin ObsPathSet
                  /\ f \notin removed
                  /\ \A k \in 1..Len(rpm_data_list) : rpm_data_list[k].path # f
                  /\ \A k \in CallIds : \A j \in 1..Len(calls[k].entry) :
                       calls[k].entry[j].path # f
          /\ (pc \in {"scan", "report"}
                => run_data.file_errors = ErrorsOf(i - 1)))
    /\ [][AtUnreadable =>
            /\ run_data'.file_errors
                 = Append(run_data.file_errors, FileError(rpm_paths[i]))
            /\ i' = i + 1
            /\ pc' = "scan"
            /\ UNCHANGED << rpm_data_list, last_package_tag, calls, removed >>
            /\ run_data'.obs_paths = run_data.obs_paths]_vars

\* The scan has skipped an unreadable path, gone on to group later paths,
\* and files have been removed.
C8_Witness ==
    /\ \E p \in 1..Len(rpm_paths) :
         /\ ~Readable(rpm_paths[p])
         /\ \E k \in CallIds : \E j \in 1..Len(calls[k].entry) :
              calls[k].entry[j].pos > p
    /\ Len(run_data.file_errors) >= 1
    /\ removed # {}

\* The paths of the records of a list are pairwise different.
DistinctPaths(list) ==
    \A x \in 1..Len(list) : \A y \in 1..Len(list) :
        list[x].path = list[y].path => x = y

\* C9: a failing size lookup for a record of a group being split does not
\* end the call with an exception (the run is not aborted), and the path of
\* an obsolete record whose lookup failed is in run_data.obs_paths.  Stated
\* for groups of different files.
C9_SizeFailureDoesNotAbort ==
    \A k \in CallIds :
        LET c == calls[k]
        IN  /\ c.split
            /\ DistinctPaths(c.entry)
            /\ \E j \in 1..Len(c.entry) : ~Universe[c.entry[j].path].sizeok
            => /\ ~c.raised
               /\ \A j \in c.r + 2..Len(c.exit) :
                    c.exit[j].path \in ObsPathSet

\* The pairs of indices a < b of the list a call leaves whose records have
\* versions that compare equal.
TiedPairs(c) ==
    {ab \in (1..Len(c.exit)) \X (1..Len(c.exit)) :
       /\ ab[1] < ab[2]
       /\ cmp_RpmData_by_version(c.exit[ab[1]], c.exit[ab[2]]) = 0}

\* The records of a group enter it in discovery order: their positions in
\* rpm_paths increase along the list on entry.
EntryInDiscoveryOrder(c) ==
    \A j \in 1..Len(c.entry) - 1 : c.entry[j].pos < c.entry[j + 1].pos

C17_TagImpliesGroup ==
    /\ pc = "scan" /\ last_package_tag # "" => Len(rpm_data_list) > 0
    /\ exception # "NameError: list_length"

\* The scan has processed a group at a tag change and has reached the end
\* of the paths with the tag of the last package set.
C17_Witness ==
    /\ pc = "scan"
    /\ i > Len(rpm_paths)
    /\ Len(calls) >= 1
    /\ last_package_tag # ""
    /\ Len(rpm_data_list) > 0

\* The positions p < s of rpm_paths hold files read successfully with the
\* same IdentityKey, with an unreadable file between them and no file of
\* another IdentityKey read successfully between them.
AcrossUnreadable(p, s) ==
    /\ p < s
    /\ Readable(rpm_paths[p]) /\ Readable(rpm_paths[s])
    /\ IdentityKey(rpm_paths[p]) = IdentityKey(rpm_paths[s])
    /\ \E q \in p + 1..s - 1 : ~Readable(rpm_paths[q])
    /\ \A q \in p + 1..s - 1 :
         Readable(rpm_paths[q])
           => IdentityKey(rpm_paths[q]) = IdentityKey(rpm_paths[p])

\* The records of positions p and s are in the group being collected, or
\* were passed to process_rpm_group in one group.
SameGroup(p, s) ==
    \/ {p, s} \subseteq Positions(rpm_data_list)
    \/ \E k \in CallIds : {p, s} \subseteq Positions(calls[k].entry)

\* C19: once the scan has gone past two files read successfully that have
\* the same IdentityKey and only unreadable files and files of that
\* IdentityKey between them, the two are in the same group; and the
\* iteration that meets an unreadable file leaves last_package_tag and
\* rpm_data_list as they were.
C19_UnreadableDoesNotSplit ==
    /\ [](\A s \in 1..i - 1 : \A p \in 1..s - 1 :
             s <= Len(rpm_paths) /\ AcrossUnreadable(p, s) => SameGroup(p, s))
    /\ [][AtUnreadable
            => UNCHANGED << last_package_tag, rpm_data_list >>]_vars

\* find_obsolete_rpms has returned after splitting a group whose records
\* come from either side of an unreadable file.
C19_Witness ==
    /\ pc = "report"
    /\ \E k \in CallIds :
         /\ calls[k].split /\ ~calls[k].raised
         /\ \E p, s \in Positions(calls[k].entry) : AcrossUnreadable(p, s)

(***************************************************************************)
(* Properties of the confirmation and the deletion.                        *)
(***************************************************************************)
\* Without --force nothing is removed, and no removal attempted, before
\* the prompt has been answered with 'y' or 'Y'.
NoRemovalBeforeYes ==
    ~force_del /\ (removed # {} \/ attempts > 0) =>
      prompts > 0 /\ Lower(user_choice) = "y"

\* The outcome of the answer typed last: y or Y (typed as the prompt asks
\* for it, or quoted) lets the deletion start, n or Ctrl-C ends the run with
\* nothing removed, and anything else brings the prompt again.
PromptUntilYesOrNo ==
    prompts > 0 =>
      IF answer.kind = "interrupt" \/ Lower(answer.val) = "n"
      THEN pc = "done" /\ removed = {} /\ attempts = 0
      ELSE IF Lower(answer.val) = "y"
      THEN pc = "delete" \/ attempts > 0
      ELSE pc = "confirm"

\* With --force there is no prompt, and a run that ends normally with
\* obsolete paths has removed every one of them.
ForceRemovesAll ==
    force_del =>
      /\ prompts = 0
      /\ (pc = "done" /\ Len(run_data.obs_paths) > 0
            => ObsPathSet \subseteq removed /\ attempts = Len(run_data.obs_paths))

\* C12: without --force no file is removed before the user has answered
\* the prompt with y (in either case); the prompt is repeated until the
\* answer is y or n; after n or a KeyboardInterrupt no file is removed; with
\* --force every path of run_data.obs_paths is removed without a prompt.
C12_ConfirmedDeletion ==
    /\ NoRemovalBeforeYes
    /\ PromptUntilYesOrNo
    /\ ForceRemovesAll

\* The paths at the first n places of run_data.obs_paths.
ObsPathsBefore(n) == {run_data.obs_paths[k] : k \in 1..n}

\* C16: a run that a failing os.remove has ended has exit status 1; the
\* failing call was made for a path of run_data.obs_paths, the paths before
\* it have been removed and nothing else has, so no path after it was
\* attempted.  A removal loop that ended without a failure has made one call
\* for every path and removed them all.
C16_DeletionStopsAtFirstFailure ==
    /\ pc = "failed" /\ exception = "SystemExit" =>
         /\ exit_status = 1
         /\ attempts \in 1..Len(run_data.obs_paths)
         /\ removed = ObsPathsBefore(attempts - 1)
    /\ pc = "done" /\ attempts > 0 =>
         /\ exit_status = 0
         /\ attempts = Len(run_data.obs_paths)
         /\ removed = ObsPathSet

\* os.remove failed for the first of two different obsolete paths: the run
\* has ended with nothing removed and the second path left alone.
C16_Witness ==
    /\ pc = "failed" /\ exception = "SystemExit"
    /\ attempts = 1
    /\ Len(run_data.obs_paths) = 2
    /\ run_data.obs_paths[1] # run_data.obs_paths[2]
    /\ removed = {}

(***************************************************************************)
(* Properties of the discovery and of the file error report (SpecOptions). *)
(***************************************************************************)
\* The suffix of a file name is wrong for the mode: the name does not end
\* in .rpm, or it ends in .src.rpm outside srpm mode, or it does not in
\* srpm mode.
WrongSuffix(f) ==
    \/ ~EndsWith(Universe[f].name, <<".", "r", "p", "m">>)
    \/ (EndsWith(Universe[f].name, <<".", "s", "r", "c", ".", "r", "p", "m">>)
          # srpm_mode)

\* A file that must not be considered: its name matches one of the
\* --exclude expressions, it is a symbolic link or not a regular file, or
\* its suffix is wrong for the mode.
NotConsidered(f) ==
    \/ \E k \in 1..Len(excluded) : Search(excluded[k], Universe[f].name)
    \/ Universe[f].islink
    \/ ~Universe[f].isfile
    \/ WrongSuffix(f)

\* C13: a file that must not be considered is not in the list find_rpms
\* returns (nor in rpm_paths later), not in the group being collected nor in
\* a group passed to process_rpm_group, not in run_data.obs_paths, and is
\* never removed.
C13_NotConsideredNeverObsolete ==
    \A f \in 1..Len(Universe) :
        NotConsidered(f) =>
          /\ \A k \in 1..Len(rpm_paths) : rpm_paths[k] # f
          /\ \A k \in 1..Len(rpm_data_list) : rpm_data_list[k].path # f
          /\ \A c \in CallIds : \A j \in 1..Len(calls[c].entry) :
               calls[c].entry[j].path # f
          /\ f \notin ObsPathSet
          /\ f \notin removed

\* The run has ended after removing a file, and left on disk an older file
\* that --exclude names, one that is a symbolic link or not regular, or one
\* with the wrong suffix.
C13_Witness ==
    /\ pc = "done"
    /\ \E f \in fs : \E g \in removed :
         /\ NotConsidered(f)
         /\ versionCompare(Universe[f].evr, Universe[g].evr) < 0
    /\ \E f \in fs \ removed :
         \E k \in 1..Len(excluded) : Search(excluded[k], Universe[f].name)

\* The run has got past the report of the file errors: it is in
\* delete_obsolete_rpms, or has ended there or after the report.
Reported ==
    \/ pc \in {"confirm", "delete", "done"}
    \/ pc = "failed" /\ (prompts > 0 \/ attempts > 0)

\* The warnings emitted for entries of run_data.file_errors, in order.
EntryWarnings == SelectSeq(warnings, LAMBDA w : w.msg # "file errors occurred")

\* C14: no warning about a file error is emitted before find_obsolete_rpms
\* has returned; once the run is past the report, the warnings emitted for
\* entries of run_data.file_errors are these entries, each once and in
\* order, or none at all with --ignore-file-errors; and the step that emits
\* a warning comes after the scan has gone through all paths and groups and
\* before any prompt or removal, and changes neither the groups nor
\* run_data.
C14_FileErrorsReportedOnce ==
    /\ [](/\ ~Reported => warnings = <<>>
          /\ Reported =>
               IF ignore_file_errors THEN warnings = <<>>
               ELSE /\ EntryWarnings = run_data.file_errors
                    /\ Len(warnings) <= Len(run_data.file_errors) + 1)
    /\ [][warnings' # warnings =>
            /\ pc = "report"
            /\ i > Len(rpm_paths)
            /\ prompts = 0 /\ attempts = 0 /\ removed = {}
            /\ prompts' = 0 /\ attempts' = 0 /\ removed' = {}
            /\ UNCHANGED << run_data, calls, rpm_data_list >>]_vars

\* The run has ended after the scan met an unreadable file: the file was
\* warned about, then the prompt was answered and a file removed.
C14_Witness ==
    /\ pc = "done"
    /\ ~ignore_file_errors
    /\ Len(run_data.file_errors) >= 1
    /\ Len(warnings) = Len(run_data.file_errors) + 1
    /\ prompts > 0
    /\ removed # {}

(***************************************************************************)
(* Properties of process_rpm_group called twice (SpecGroup).               *)
(***************************************************************************)
\* process_rpm_group has been called twice on the list and both calls
\* returned.
CalledTwice == Len(calls) = 2 /\ ~calls[1].raised /\ ~calls[2].raised

\* C11: the second call of process_rpm_group on the list the first call
\* left, with the same num_obsolete, marks obsolete exactly the records the
\* first call marked and retains exactly the records the first retained.
C11_SecondCallSameSets ==
    CalledTwice =>
      /\ Obsolete(calls[2]) = Obsolete(calls[1])
      /\ Retained(calls[2]) = Retained(calls[1])

ArchPart(path) ==
    Split(basename(path))[Len(Split(basename(path))) - 1]

NameVersionParts(path) ==
    SubSeq(Split(basename(path)), 1, Len(Split(basename(path))) - 3)

\* cmp( a, b ) = -cmp( b, a ) for the paths compared.
PathCmpAntisymmetric ==
    \A x, y \in 1..Len(rpm_paths) :
        results.paths[x][y] = 0 - results.paths[y][x]

\* a <= b and b <= c give a <= c, and a < b and b < c give a < c.
PathCmpTransitive ==
    \A x, y, z \in 1..Len(rpm_paths) :
        /\ results.paths[x][y] <= 0 /\ results.paths[y][z] <= 0
             => results.paths[x][z] <= 0
        /\ results.paths[x][y] < 0 /\ results.paths[y][z] < 0
             => results.paths[x][z] < 0

\* 0 is returned only for names with equal architecture parts and equal
\* name and version parts.
PathCmpZeroOnlyForEqual ==
    \A x, y \in 1..Len(rpm_paths) :
        results.paths[x][y] = 0 =>
          /\ ArchPart(rpm_paths[x]) = ArchPart(rpm_paths[y])
          /\ NameVersionParts(rpm_paths[x]) = NameVersionParts(rpm_paths[y])

\* C18: cmp_paths_by_pkg_name_and_arch is a consistent total preorder over
\* file names: cmp( a, b ) = -cmp( b, a ), it is transitive across names of
\* two, three and more dot-separated parts, and it returns 0 only for names
\* whose architecture parts and name and version parts are equal.
C18_PathCmpTotalPreorder ==
    pc = "compared" =>
      /\ PathCmpAntisymmetric
      /\ PathCmpTransitive
      /\ PathCmpZeroOnlyForEqual

====
